---- MODULE Spec2Model ----
(***************************************************************************)
(* Statsify (src/main.py): the session token cache that the Streamlit     *)
(* script hands to spotipy's SpotifyOAuth, and the login / logout /        *)
(* dashboard render that runs on top of it.                                *)
(*                                                                         *)
(* st.session_state is a dictionary per browser session.  One run of the   *)
(* script (a "render") is a top-to-bottom pass; Streamlit serialises the   *)
(* renders of one session and interleaves the renders of different ones.   *)
(* Every spotipy call (sp.current_user(), ...) first asks the cache        *)
(* handler for the token, obtains or refreshes one when needed (saving it  *)
(* through the handler) and then issues the HTTP request; what the OAuth   *)
(* provider and the API answer is the environment's choice.                *)
(***************************************************************************)
EXTENDS Integers, Sequences, FiniteSets, TLC

\* Bounds of the model.
MaxIssued == 3    \* token records the OAuth provider issues in one behaviour
MaxVal == 2       \* field values of the token records of the cache harness
HistLen == 3      \* cache operations the harness remembers

Sessions == {"s1", "s2"}

VARIABLES
    session_state,      \* session -> the session's st.session_state dictionary
    pc,                 \* session -> position of the session's script run
    ui,                 \* session -> what the current page shows: the st.success and
                        \* st.error alerts, an uncaught exception, the Refresh button
    refresh_clicked,    \* session -> the run was triggered by the Refresh button
    issued,             \* number of token records the provider has issued
    issued_to,          \* token number -> session whose OAuth flow obtained it
    verified,           \* session -> a profile call succeeded since the record was stored
    ever_authenticated, \* session -> the authenticated flag has been True
    logged_out_at,      \* session -> value of issued at the session's last logout
    hist                \* cache harness: the last HistLen cache operations

vars == <<session_state, pc, ui, refresh_clicked, issued, issued_to, verified,
          ever_authenticated, logged_out_at, hist>>

(***************************************************************************)
(* Python values                                                           *)
(***************************************************************************)

\* Python's None, as dict.get returns it for a missing key.
None == [NoneType |-> TRUE]

\* d[k] = v on a dictionary.
DictSet(d, k, v) == [x \in DOMAIN d \cup {k} |-> IF x = k THEN v ELSE d[x]]

\* del d[k] on a dictionary.
DictDel(d, k) == [x \in DOMAIN d \ {k} |-> d[x]]

\* The dictionary of a session that has stored nothing yet.
EmptyDict == [x \in {} |-> TRUE]

(***************************************************************************)
(* StreamlitCacheHandler and clear_session_token                          *)
(***************************************************************************)

\* A handler that hides the record until the session is authenticated.
get_cached_token_if_authenticated(d) ==
    IF "spotify_token" \in DOMAIN d /\ "authenticated" \in DOMAIN d
       /\ d["authenticated"] = TRUE
    THEN d["spotify_token"] ELSE None

get_cached_token(d) ==
    IF "spotify_token" \in DOMAIN d THEN d["spotify_token"] ELSE None

\* A handler that updates the stored dictionary in place instead of replacing it.
save_token_to_cache_merge(d, token_info) ==
    IF "spotify_token" \in DOMAIN d
    THEN DictSet(d, "spotify_token",
                 [k \in DOMAIN d["spotify_token"] \cup DOMAIN token_info |->
                    IF k \in DOMAIN token_info THEN token_info[k]
                    ELSE d["spotify_token"][k]])
    ELSE DictSet(d, "spotify_token", token_info)

save_token_to_cache(d, token_info) == DictSet(d, "spotify_token", token_info)

\* A logout that leaves the record in the store.
keep_token_key(d) == d

\* Lines 25-26.
clear_token_key(d) ==
    IF "spotify_token" \in DOMAIN d THEN DictDel(d, "spotify_token") ELSE d

\* A logout that leaves the flag set.
keep_authenticated_key(d) == d

\* Lines 27-28.
clear_authenticated_key(d) ==
    IF "authenticated" \in DOMAIN d THEN DictDel(d, "authenticated") ELSE d

\* The second test written as elif: only one of the two keys goes.
clear_session_token_elif(d) ==
    IF "spotify_token" \in DOMAIN d THEN DictDel(d, "spotify_token")
    ELSE clear_authenticated_key(d)

clear_session_token(d) == clear_authenticated_key(clear_token_key(d))

\* A store shared by the whole process (a module-level dictionary, a cache file).
ProcessWideWrite(ss, s, d) == [t \in Sessions |-> d]

\* st.session_state is the store of the session whose script is running.
SessionWrite(ss, s, d) == [ss EXCEPT ![s] = d]

\* Lines 60-61.
init_authenticated(d) ==
    IF "authenticated" \notin DOMAIN d THEN DictSet(d, "authenticated", FALSE) ELSE d

\* st.session_state.authenticated as lines 79 and 80 read it.
Authenticated(d) == d["authenticated"]

Init ==
    /\ session_state = [s \in Sessions |-> EmptyDict]
    /\ pc = [s \in Sessions |-> "idle"]
    /\ ui = [s \in Sessions |-> {}]
    /\ refresh_clicked = [s \in Sessions |-> FALSE]
    /\ issued = 0
    /\ issued_to = [n \in 1..MaxIssued |-> "nobody"]
    /\ verified = [s \in Sessions |-> FALSE]
    /\ ever_authenticated = [s \in Sessions |-> FALSE]
    /\ logged_out_at = [s \in Sessions |-> 0]
    /\ hist = << >>

(***************************************************************************)
(* spotipy.Spotify(auth_manager=SpotifyOAuth(cache_handler=...))           *)
(***************************************************************************)

\* The record an authorization-code exchange returns.
NewToken(n) == [access_token |-> n, refresh_token |-> n]

\* The record a refresh returns: a new access token, the refresh token kept.
RefreshedToken(old, n) == [access_token |-> n, refresh_token |-> old["refresh_token"]]

\* One call of the client built by get_spotify_client on the dictionary d, n
\* records issued so far: the outcomes the OAuth provider and the API allow.
\* The client reads the cache; with no record it runs the authorization-code
\* exchange, with an expired one the refresh; either saves the new record
\* through the handler or raises SpotifyOauthError; then the request is sent
\* and answers or raises SpotifyException.
sp_call(d, n) ==
    LET cached == get_cached_token(d)
        fresh == IF cached = None THEN NewToken(n + 1) ELSE RefreshedToken(cached, n + 1)
        oauth_failed == {[d |-> d, n |-> n, saved |-> FALSE, result |-> "SpotifyOauthError"]}
        oauth_done == IF n < MaxIssued
                      THEN {[d |-> save_token_to_cache(d, fresh), n |-> n + 1,
                             saved |-> TRUE, result |-> r] : r \in {"ok", "SpotifyException"}}
                      ELSE {}
        still_valid == IF cached = None THEN {}
                       ELSE {[d |-> d, n |-> n, saved |-> FALSE, result |-> r] :
                                r \in {"ok", "SpotifyException"}}
    IN  oauth_failed \cup oauth_done \cup still_valid

\* The effect of a call's outcome o on the session s; is_profile: the call is
\* sp.current_user().
Remote(s, o, is_profile) ==
    /\ session_state' = SessionWrite(session_state, s, o.d)
    /\ issued' = o.n
    /\ issued_to' = IF o.saved THEN [issued_to EXCEPT ![o.n] = s] ELSE issued_to
    /\ verified' = [verified EXCEPT ![s] =
                      IF is_profile /\ o.result = "ok" THEN TRUE
                      ELSE IF o.saved THEN FALSE ELSE @]

\* An exception nothing catches ends the run; Streamlit shows it on the page.
Unhandled(s, exception) ==
    /\ pc' = [pc EXCEPT ![s] = "idle"]
    /\ ui' = [ui EXCEPT ![s] = @ \cup {exception}]

(***************************************************************************)
(* The script, lines 59-253                                                *)
(***************************************************************************)

\* Lines 60-80: the flag's default, the client, the login/logout button and
\* the branch a click on it takes.
RunScript(s, click) ==
    LET d == init_authenticated(session_state[s])
    IN  /\ session_state' = SessionWrite(session_state, s, d)
        /\ ui' = [ui EXCEPT ![s] = {}]
        /\ refresh_clicked' = [refresh_clicked EXCEPT ![s] = (click = "refresh")]
        /\ pc' = [pc EXCEPT ![s] =
                    IF click = "auth"
                    THEN IF Authenticated(d) THEN "logout" ELSE "login"
                    ELSE "profile"]
        /\ UNCHANGED <<issued, issued_to, verified, ever_authenticated, logged_out_at, hist>>

\* The browser loads the page, or the user operates a widget: the script runs.
\* A button can be clicked once a run has put it on the page.
Render(s) ==
    /\ pc[s] = "idle"
    /\ \E click \in {"none", "auth", "refresh"} :
          /\ click = "auth" => "authenticated" \in DOMAIN session_state[s]
          /\ click = "refresh" => "profile_shown" \in ui[s]
          /\ RunScript(s, click)

\* st.rerun(): the script runs again from the top, no widget clicked.
Rerun(s) ==
    /\ pc[s] = "rerun"
    /\ RunScript(s, "none")

\* Lines 80-81, 25-26: the logout branch enters clear_session_token.
LogoutDelToken(s) ==
    /\ pc[s] = "logout"
    /\ session_state' = SessionWrite(session_state, s, clear_token_key(session_state[s]))
    /\ verified' = [verified EXCEPT ![s] = FALSE]
    /\ pc' = [pc EXCEPT ![s] = "logout_flag"]
    /\ UNCHANGED <<ui, refresh_clicked, issued, issued_to, ever_authenticated,
                   logged_out_at, hist>>

\* Lines 27-28, 82-83: the flag goes, the confirmation, st.rerun().
LogoutDelFlag(s) ==
    /\ pc[s] = "logout_flag"
    /\ session_state' = SessionWrite(session_state, s,
                                     clear_authenticated_key(session_state[s]))
    /\ ui' = [ui EXCEPT ![s] = @ \cup {"logged_out"}]
    /\ logged_out_at' = [logged_out_at EXCEPT ![s] = issued]
    /\ pc' = [pc EXCEPT ![s] = "rerun"]
    /\ UNCHANGED <<refresh_clicked, issued, issued_to, verified, ever_authenticated, hist>>

\* An except branch that undoes the attempt.
login_except_clear(d) == clear_session_token(d)

\* Lines 91-92: the except branch reports and leaves the store as it is.
login_except(d) == d

\* Lines 84-92: the login branch.
Login(s) ==
    /\ pc[s] = "login"
    /\ \E o \in sp_call(session_state[s], issued) :
          IF o.result = "ok"
          THEN /\ Remote(s, [o EXCEPT !.d = DictSet(o.d, "authenticated", TRUE)], TRUE)
               /\ ever_authenticated' = [ever_authenticated EXCEPT ![s] = TRUE]
               /\ ui' = [ui EXCEPT ![s] = @ \cup {"logged_in"}]
               /\ pc' = [pc EXCEPT ![s] = "rerun"]
          ELSE /\ Remote(s, [o EXCEPT !.d = login_except(o.d)], TRUE)
               /\ ui' = [ui EXCEPT ![s] = @ \cup {"login_failed"}]
               /\ pc' = [pc EXCEPT ![s] = "profile"]
               /\ UNCHANGED ever_authenticated
    /\ UNCHANGED <<refresh_clicked, logged_out_at, hist>>

\* An except branch without st.stop(): the script goes on to line 100.
AfterProfileErrorContinue == "recent"

\* Line 98: st.stop() ends the run.
AfterProfileError == "idle"

\* Lines 93-98: the dashboard's profile fetch.
Profile(s) ==
    /\ pc[s] = "profile"
    /\ \E o \in sp_call(session_state[s], issued) :
          /\ Remote(s, o, TRUE)
          /\ IF o.result = "ok"
             THEN /\ pc' = [pc EXCEPT ![s] = "recent"]
                  /\ UNCHANGED ui
             ELSE IF o.result = "SpotifyException"
             THEN /\ pc' = [pc EXCEPT ![s] = AfterProfileError]
                  /\ ui' = [ui EXCEPT ![s] = @ \cup {"profile_error"}]
             ELSE Unhandled(s, o.result)
    /\ UNCHANGED <<refresh_clicked, ever_authenticated, logged_out_at, hist>>

\* A dashboard call whose exceptions nothing catches.
Fetch(s, here, next) ==
    /\ pc[s] = here
    /\ \E o \in sp_call(session_state[s], issued) :
          /\ Remote(s, o, FALSE)
          /\ IF o.result = "ok"
             THEN /\ pc' = [pc EXCEPT ![s] = next]
                  /\ UNCHANGED ui
             ELSE Unhandled(s, o.result)
    /\ UNCHANGED <<refresh_clicked, ever_authenticated, logged_out_at, hist>>

\* Lines 100-101: the recently played tracks; the first of them is indexed.
RecentlyPlayed(s) ==
    /\ pc[s] = "recent"
    /\ \E o \in sp_call(session_state[s], issued), empty \in BOOLEAN :
          /\ Remote(s, o, FALSE)
          /\ IF o.result # "ok" THEN Unhandled(s, o.result)
             ELSE IF empty THEN Unhandled(s, "IndexError")
             ELSE /\ pc' = [pc EXCEPT ![s] = "profile_section"]
                  /\ UNCHANGED ui
    /\ UNCHANGED <<refresh_clicked, ever_authenticated, logged_out_at, hist>>

\* Lines 103-117: the profile section and its Refresh button.
ProfileSection(s) ==
    /\ pc[s] = "profile_section"
    /\ IF refresh_clicked[s]
       THEN \E o \in sp_call(session_state[s], issued) :
               /\ Remote(s, o, TRUE)
               /\ IF o.result = "ok"
                  THEN /\ pc' = [pc EXCEPT ![s] = "playback"]
                       /\ ui' = [ui EXCEPT ![s] = @ \cup {"profile_shown"}]
                  ELSE /\ pc' = [pc EXCEPT ![s] = "idle"]
                       /\ ui' = [ui EXCEPT ![s] = @ \cup {"profile_shown", o.result}]
       ELSE /\ pc' = [pc EXCEPT ![s] = "playback"]
            /\ ui' = [ui EXCEPT ![s] = @ \cup {"profile_shown"}]
            /\ UNCHANGED <<session_state, issued, issued_to, verified>>
    /\ UNCHANGED <<refresh_clicked, ever_authenticated, logged_out_at, hist>>

\* Line 120.
CurrentPlayback(s) == Fetch(s, "playback", "queue")

\* Lines 149-164: the queue; its SpotifyException is caught, the panel writes
\* a fallback text (st.write, page content) and the script goes on.
Queue(s) ==
    /\ pc[s] = "queue"
    /\ \E o \in sp_call(session_state[s], issued) :
          /\ Remote(s, o, FALSE)
          /\ IF o.result = "ok"
             THEN /\ pc' = [pc EXCEPT ![s] = "top_artists"]
                  /\ UNCHANGED ui
             ELSE IF o.result = "SpotifyException"
             THEN /\ pc' = [pc EXCEPT ![s] = "top_artists"]
                  /\ UNCHANGED ui
             ELSE Unhandled(s, o.result)
    /\ UNCHANGED <<refresh_clicked, ever_authenticated, logged_out_at, hist>>

\* Line 192.
TopArtists(s) == Fetch(s, "top_artists", "top_tracks")

\* Line 227, and the rest of the page: the run ends.
TopTracks(s) == Fetch(s, "top_tracks", "idle")

Next ==
    \E s \in Sessions :
        \/ Render(s)
        \/ Rerun(s)
        \/ LogoutDelToken(s)
        \/ LogoutDelFlag(s)
        \/ Login(s)
        \/ Profile(s)
        \/ RecentlyPlayed(s)
        \/ ProfileSection(s)
        \/ CurrentPlayback(s)
        \/ Queue(s)
        \/ TopArtists(s)
        \/ TopTracks(s)

Spec == Init /\ [][Next]_vars

(***************************************************************************)
(* The cache handler on its own: the operations of lines 15-28 and the     *)
(* two assignments of the flag (lines 61 and 88), called in any order on   *)
(* one session's dictionary.                                               *)
(***************************************************************************)

CacheSession == "s1"

\* Token records as the provider may return them: a refresh response may
\* leave the refresh token out.
TokenRecords ==
    [{"access_token"} -> 1..MaxVal]
        \cup [{"access_token", "refresh_token"} -> 1..MaxVal]

Push(h, e) == IF Len(h) < HistLen THEN Append(h, e) ELSE Append(Tail(h), e)

Last(h) == h[Len(h)]

CacheStep(d, e) ==
    /\ session_state' = SessionWrite(session_state, CacheSession, d)
    /\ hist' = Push(hist, e)
    /\ UNCHANGED <<pc, ui, refresh_clicked, issued, issued_to, verified, logged_out_at>>

CacheSave ==
    \E token_info \in TokenRecords :
        /\ CacheStep(save_token_to_cache(session_state[CacheSession], token_info),
                     [op |-> "save", arg |-> token_info])
        /\ UNCHANGED ever_authenticated

CacheGet ==
    /\ CacheStep(session_state[CacheSession],
                 [op |-> "get", arg |-> get_cached_token(session_state[CacheSession])])
    /\ UNCHANGED ever_authenticated

CacheClear ==
    /\ CacheStep(clear_session_token(session_state[CacheSession]),
                 [op |-> "clear", arg |-> None])
    /\ UNCHANGED ever_authenticated

\* Lines 60-61.
CacheInitFlag ==
    /\ CacheStep(init_authenticated(session_state[CacheSession]),
                 [op |-> "init_flag", arg |-> None])
    /\ UNCHANGED ever_authenticated

\* Line 88.
CacheSetFlag ==
    /\ CacheStep(DictSet(session_state[CacheSession], "authenticated", TRUE),
                 [op |-> "set_flag", arg |-> None])
    /\ ever_authenticated' = [ever_authenticated EXCEPT ![CacheSession] = TRUE]

NextCache == CacheSave \/ CacheGet \/ CacheClear \/ CacheInitFlag \/ CacheSetFlag

SpecCache == Init /\ [][NextCache]_vars

(***************************************************************************)
(* Properties                                                              *)
(***************************************************************************)

HasToken(d) == "spotify_token" \in DOMAIN d

FlagTrue(d) == "authenticated" \in DOMAIN d /\ d["authenticated"] = TRUE

FlagFalse(d) == "authenticated" \in DOMAIN d /\ d["authenticated"] = FALSE

\* The step appends the cache operation op to the history.
CacheOp(op) == /\ hist' # hist
               /\ Last(hist').op = op

\* C1: whenever two saves are followed by a get, whatever the dictionary held
\* before them, the get returns exactly the record of the second save: no
\* field of the first record survives in it.
C1_LastWriteWins ==
    \A i \in 1..(Len(hist) - 2) :
        (hist[i].op = "save" /\ hist[i + 1].op = "save" /\ hist[i + 2].op = "get")
            => hist[i + 2].arg = hist[i + 1].arg

\* A record with a refresh token saved, then one without, then read back.
C1_Witness ==
    /\ Len(hist) = 3
    /\ hist[1].op = "save" /\ hist[2].op = "save" /\ hist[3].op = "get"
    /\ "refresh_token" \in DOMAIN hist[1].arg
    /\ "refresh_token" \notin DOMAIN hist[2].arg

\* C2: a get right after a clear returns None whatever was stored before; a
\* clear leaves a dictionary that a second clear does not change; a clear of
\* a dictionary with neither key leaves it as it is, and a clear of one with
\* no record and the flag False leaves no record and no true flag.
C2_ClearThenAbsentIdempotent ==
    [][ /\ (CacheOp("get") /\ Len(hist) > 0 /\ Last(hist).op = "clear")
              => Last(hist').arg = None
        /\ CacheOp("clear")
              => /\ clear_session_token(session_state'[CacheSession])
                        = session_state'[CacheSession]
                 /\ get_cached_token(session_state'[CacheSession]) = None
                 /\ ~FlagTrue(session_state'[CacheSession])
                 /\ DOMAIN session_state[CacheSession] = {}
                        => session_state' = session_state
        /\ (CacheOp("clear") /\ Len(hist) > 0 /\ Last(hist).op = "clear")
              => session_state' = session_state
      ]_vars

\* A record and a true flag were stored, then clear, then get.
C2_Witness ==
    /\ Len(hist) = 3
    /\ hist[1].op = "save" /\ hist[2].op = "clear" /\ hist[3].op = "get"
    /\ DOMAIN session_state[CacheSession] = {}

\* C7 as claimed: a get in a session whose flag has never been true returns None.
C7_AbsentUntilAuthenticated ==
    (Len(hist) > 0 /\ Last(hist).op = "get" /\ ~ever_authenticated[CacheSession])
        => Last(hist).arg = None

\* C7 as amended: a get returns the stored record when one is stored and None
\* when none is, whether or not the flag has ever been true, and leaves the
\* session's dictionary as it was.
C7_ReturnsStoredRecordNoSideEffect ==
    [][ CacheOp("get")
          => /\ session_state' = session_state
             /\ HasToken(session_state[CacheSession])
                    => Last(hist').arg = session_state[CacheSession]["spotify_token"]
             /\ ~HasToken(session_state[CacheSession]) => Last(hist').arg = None
      ]_vars

\* A get that returned a record in a session whose flag has never been true.
C7_Witness ==
    /\ Len(hist) > 0
    /\ Last(hist).op = "get"
    /\ Last(hist).arg # None
    /\ ~ever_authenticated[CacheSession]

\* C3 as claimed: the flag is true exactly when a record is stored and a
\* profile call has succeeded since it was stored.
C3_FlagIffVerifiedToken ==
    \A s \in Sessions :
        FlagTrue(session_state[s]) <=> (HasToken(session_state[s]) /\ verified[s])

\* C4: outside clear_session_token no session is half logged out: a true flag
\* without a record exists only between the function's two deletions, where
\* the session's one step is the second deletion; and when the logout branch
\* hands over to the rerun both keys are gone.
C4_LogoutClearsBoth ==
    \A s \in Sessions :
        /\ (~HasToken(session_state[s]) /\ FlagTrue(session_state[s]))
              => pc[s] = "logout_flag"
        /\ (pc[s] = "rerun" /\ "logged_out" \in ui[s])
              => DOMAIN session_state[s] = {}

\* A logout has just completed in a session that held a record.
C4_Witness ==
    \E s \in Sessions :
        /\ pc[s] = "rerun"
        /\ "logged_out" \in ui[s]
        /\ logged_out_at[s] > 0

\* C5: a step of one session leaves the dictionary of every other session as
\* it was, and the record a session's handler returns is one the provider
\* issued to that session.
C5_SessionsIsolated ==
    [][ \A s \in Sessions :
          /\ pc'[s] = pc[s] => session_state'[s] = session_state[s]
          /\ HasToken(session_state'[s])
                => issued_to'[get_cached_token(session_state'[s])["access_token"]] = s
      ]_vars

\* Two sessions hold records at once, one of them mid-render.
C5_Witness ==
    \E s, t \in Sessions :
        /\ s # t
        /\ HasToken(session_state[s]) /\ HasToken(session_state[t])
        /\ FlagTrue(session_state[s]) /\ ~FlagTrue(session_state[t])
        /\ pc[t] # "idle"

\* C6: once a session has logged out, the record its handler returns is never
\* one from before that logout, and a login that succeeds after it leaves the
\* flag true with a record issued after the logout.
C6_ReloginFreshToken ==
    \A s \in Sessions :
        logged_out_at[s] > 0 =>
            /\ HasToken(session_state[s]) =>
                  /\ get_cached_token(session_state[s])["access_token"] > logged_out_at[s]
                  /\ get_cached_token(session_state[s])["refresh_token"] > logged_out_at[s]
            /\ (pc[s] = "rerun" /\ "logged_in" \in ui[s]) =>
                  /\ FlagTrue(session_state[s])
                  /\ HasToken(session_state[s])

\* Login, logout and a second login have succeeded.
C6_Witness ==
    \E s \in Sessions :
        /\ logged_out_at[s] > 0
        /\ pc[s] = "rerun"
        /\ "logged_in" \in ui[s]

\* C8: a login attempt that raises shows the failure, leaves the flag False
\* for as long as the failure is on the page, and removes no record: the
\* one saved during the attempt is the one stored after it.
C8_LoginFailureKeepsToken ==
    [][ \A s \in Sessions :
          /\ (pc[s] = "login" /\ pc'[s] # "login" /\ ~FlagTrue(session_state'[s]))
                => /\ "login_failed" \in ui'[s]
                   /\ pc'[s] # "rerun"
                   /\ issued' > issued
                        => /\ HasToken(session_state'[s])
                           /\ get_cached_token(session_state'[s])["access_token"] = issued'
          /\ "login_failed" \in ui'[s]
                => /\ FlagFalse(session_state'[s])
                   /\ HasToken(session_state[s]) => HasToken(session_state'[s])
      ]_vars

\* A login attempt saved a record and then failed.
C8_Witness ==
    \E s \in Sessions :
        /\ pc[s] = "profile"
        /\ "login_failed" \in ui[s]
        /\ HasToken(session_state[s])
        /\ ~verified[s]

\* C9 as claimed: after a refresh that failed (SpotifyOauthError raised while
\* a record is stored) the flag is not true.
C9_FailedRefreshLogsOut ==
    \A s \in Sessions :
        ("SpotifyOauthError" \in ui[s] /\ HasToken(session_state[s]))
            => ~FlagTrue(session_state[s])

\* C10: once the dashboard's profile fetch has raised SpotifyException the
\* error is on the page and the run is over: the session is at no call site.
C10_ProfileErrorHalts ==
    \A s \in Sessions :
        "profile_error" \in ui[s] => pc[s] = "idle"

\* The dashboard's profile fetch failed in a logged-in session.
C10_Witness ==
    \E s \in Sessions :
        /\ "profile_error" \in ui[s]
        /\ FlagTrue(session_state[s])

====
